---- MODULE Spec2Model ----
(***************************************************************************)
(* Model of library/juniper_junos_file.py: the checksum-verified file      *)
(* copy between the controller (local file) and a Junos device (remote     *)
(* file).  One invocation of main() is a walk of pc through the statements *)
(* of lines 518-586; local_md5 and remote_md5 are operators.  A file is    *)
(* represented by the MD5 digest of its current contents, or by ENOENT     *)
(* when the path does not exist.                                           *)
(***************************************************************************)
EXTENDS Integers, Sequences, FiniteSets, TLC

\* ------------------------------------------------------------------ bounds
NumDigests == 2
MaxRuns == 2
MaxEnvChanges == 1

DigestNames == <<"d1", "d2", "d3", "d4">>
Digests == {DigestNames[i] : i \in 1..NumDigests}

ENOENT == "ENOENT"
FileStates == Digests \cup {ENOENT}
Types == {"put", "get"}

\* markers of the model: a variable not yet assigned, an exception raised
UNSET == "unset"
RAISE == "raise"

VARIABLES
    type,             \* params['type']
    localFile,        \* contents (digest) of local_file on the controller
    remoteFile,       \* contents (digest) of remote_file on the device
    pc,               \* position of main()
    local_checksum,   \* main's local_checksum
    remote_checksum,  \* main's remote_checksum
    status,           \* main's status
    results,          \* main's results dict
    scpOpen,          \* an SCP session is open on junos_module.dev
    exc,              \* exception pending inside the with block
    emitted,          \* "none", "exit_json", "fail_json", "traceback"
    \* ---- history (observation only; no guard of the program reads them)
    run,              \* number of the current invocation
    prev,             \* how the previous invocation ended
    envChanges,       \* external modifications so far
    dirty,            \* a file was modified externally during this invocation
    obs               \* what this invocation did, see InitObs

vars == <<type, localFile, remoteFile, pc, local_checksum, remote_checksum,
          status, results, scpOpen, exc, emitted, run, prev, envChanges, dirty,
          obs>>

\* ------------------------------------------------------- pure functions

\* local_md5: the hex digest of the file, "no_file" when the file is missing
\* and the direction is get, otherwise the exception is re-raised.
\* ioerr: open/read fails for another cause than a missing file.
LocalMd5Leaky(file, t, ioerr) ==
    IF ioerr THEN RAISE
    ELSE IF file = ENOENT THEN "no_file"
    ELSE file

local_md5(file, t, ioerr) ==
    IF ioerr THEN RAISE
    ELSE IF file = ENOENT
         THEN IF t = "get" THEN "no_file" ELSE RAISE
    ELSE file

\* remote_md5: the checksum of the RPC reply, "no_file" when the device says
\* "No such file or directory" and the direction is put, otherwise the
\* exception is re-raised.  rpcerr: the RPC fails for another cause
\* (connectivity, reply without a checksum element).
RemoteMd5Swallow(file, t, rpcerr) ==
    IF rpcerr THEN "no_file"
    ELSE IF file = ENOENT
         THEN IF t = "put" THEN "no_file" ELSE RAISE
    ELSE file

RemoteMd5Strict(file, t, rpcerr) ==
    IF rpcerr THEN RAISE
    ELSE IF file = ENOENT THEN RAISE
    ELSE file

remote_md5(file, t, rpcerr) ==
    IF rpcerr THEN RAISE
    ELSE IF file = ENOENT
         THEN IF t = "put" THEN "no_file" ELSE RAISE
    ELSE file

\* the condition of lines 523 and 555: dst is the destination checksum
NeedTransferOnlyAbsent(dst, src) == dst = "no_file"

NeedTransferAlways(dst, src) == TRUE

NeedTransfer(dst, src) == (dst = "no_file") \/ (dst # src)

\* the condition of lines 534 and 565 (true: mismatch)
MismatchNever(src, dst) == FALSE

Mismatch(src, dst) == src # dst

\* the message of lines 535-538 and 567-570
FailStatus(l, r) ==
    <<"Transfer failed (different MD5 between local and remote)", l, r>>

\* SCP.__exit__: the session is closed whatever happened in the block
ScpExitLeaky(e) == e # "none"

ScpAfterExit(e) == FALSE

\* what the blocking copy may do to the destination: <<raised, new contents>>
\* a faithful copy, a copy that left other contents (corruption, truncation),
\* or an exception with the destination untouched or partly written
CopyOutcomes(src, dst) ==
    IF src = ENOENT THEN {<<TRUE, dst>>}
    ELSE {<<FALSE, src>>}
         \cup {<<FALSE, d>> : d \in Digests}
         \cup {<<TRUE, dst>>}
         \cup {<<TRUE, d>> : d \in Digests}

InitResults == [msg |-> <<>>, changed |-> FALSE, failed |-> FALSE]

Terminal == {"exited", "failed", "raised"}

\* ------------------------------------------------------------- state

InitObs ==
    [srcSeen |-> UNSET,       \* source checksum obtained in Comparing
     dstSeen |-> UNSET,       \* destination checksum obtained in Comparing
     dstVerified |-> UNSET,   \* destination checksum obtained in Verifying
     decided |-> "none",      \* "transfer" or "skip", the branch of line 523/555
     copyDone |-> FALSE,      \* the copy call returned without raising
     cksumOpen |-> FALSE,     \* a checksum operation ran with a session open
     trace |-> <<"Comparing">>, \* states of the sync visited
     ops |-> <<>>,            \* collaborator calls, in order
     atStart |-> <<ENOENT, ENOENT>>] \* the two files when the run began

NoPrev ==
    [outcome |-> "none", type |-> "none", dirty |-> FALSE,
     local |-> ENOENT]

\* what is kept of an ended invocation: how it ended and, when it ended in
\* Success with nobody else writing, its direction and the local file it
\* began with
Ended(oc, t, d, l) ==
    IF oc = "Success" /\ ~d
    THEN [outcome |-> oc, type |-> t, dirty |-> d, local |-> l]
    ELSE [outcome |-> oc, type |-> "none", dirty |-> TRUE, local |-> ENOENT]

\* what a collaborator did when it was called: the call and its result
Note(o, op, res) == [o EXCEPT !.ops = Append(@, <<op, res>>)]
Visit(o, st) == [o EXCEPT !.trace = Append(@, st)]
\* the result of a checksum collaborator: the file system or the device
\* answers "ok", reports the path "absent", or fails otherwise ("error")
FileRes(file, err) ==
    IF err THEN "error" ELSE IF file = ENOENT THEN "absent" ELSE "ok"
Cksum(o, op, res) == [Note(o, op, res) EXCEPT !.cksumOpen = @ \/ scpOpen]

Outcome == obs.trace[Len(obs.trace)]

\* the positions of ops at which one of the calls of names was made
Calls(names) == {i \in 1..Len(obs.ops) : obs.ops[i][1] \in names}
OpNames == [i \in 1..Len(obs.ops) |-> obs.ops[i][1]]
CksumOps == {"local_md5", "remote_md5"}
CopyOps == {"scp_put", "scp_get"}

Init ==
    /\ type \in Types
    /\ localFile \in FileStates
    /\ remoteFile \in FileStates
    /\ pc = "start"
    /\ local_checksum = UNSET
    /\ remote_checksum = UNSET
    /\ status = <<>>
    /\ results = InitResults
    /\ scpOpen = FALSE
    /\ exc = "none"
    /\ emitted = "none"
    /\ run = 1
    /\ prev = NoPrev
    /\ envChanges = 0
    /\ dirty = FALSE
    /\ obs = [InitObs EXCEPT !.atStart = <<localFile, remoteFile>>]

\* an exception nobody catches leaves main(): the module ends with a traceback
Uncaught(o) ==
    /\ pc' = "raised"
    /\ emitted' = "traceback"
    /\ obs' = Visit(o, "Fatal")

\* (variant: the destination side is computed first)
BeginDstFirst ==
    /\ pc = "start"
    /\ results' = InitResults
    /\ pc' = IF type = "put" THEN "put_remote" ELSE "get_local"
    /\ UNCHANGED <<type, localFile, remoteFile, local_checksum, remote_checksum,
                   status, scpOpen, exc, emitted, run, prev, envChanges, dirty,
                   obs>>

\* lines 507-518/550: results initialised, dispatch on params['type']
Begin ==
    /\ pc = "start"
    /\ results' = InitResults
    /\ pc' = IF type = "put" THEN "put_local" ELSE "get_remote"
    /\ UNCHANGED <<type, localFile, remoteFile, local_checksum, remote_checksum,
                   status, scpOpen, exc, emitted, run, prev, envChanges, dirty,
                   obs>>

\* ---------------------------------------------------------------- put

\* line 520
PutLocalMd5 ==
    /\ pc = "put_local"
    /\ \E ioerr \in BOOLEAN :
         LET c == local_md5(localFile, type, ioerr)
             o == Cksum(obs, "local_md5", FileRes(localFile, ioerr))
         IN IF c = RAISE
            THEN Uncaught(o) /\ UNCHANGED local_checksum
            ELSE /\ local_checksum' = c
                 /\ pc' = "put_remote"
                 /\ obs' = [o EXCEPT !.srcSeen = c]
                 /\ UNCHANGED emitted
    /\ UNCHANGED <<type, localFile, remoteFile, remote_checksum, status,
                   results, scpOpen, exc, run, prev, envChanges, dirty>>

\* line 522
PutRemoteMd5 ==
    /\ pc = "put_remote"
    /\ \E rpcerr \in BOOLEAN :
         LET c == remote_md5(remoteFile, type, rpcerr)
             o == Cksum(obs, "remote_md5", FileRes(remoteFile, rpcerr))
         IN IF c = RAISE
            THEN Uncaught(o) /\ UNCHANGED remote_checksum
            ELSE /\ remote_checksum' = c
                 /\ pc' = "put_decide"
                 /\ obs' = [o EXCEPT !.dstSeen = c]
                 /\ UNCHANGED emitted
    /\ UNCHANGED <<type, localFile, remoteFile, local_checksum, status,
                   results, scpOpen, exc, run, prev, envChanges, dirty>>

\* lines 523-525 and 546-548
PutDecide ==
    /\ pc = "put_decide"
    /\ IF NeedTransfer(remote_checksum, local_checksum)
       THEN /\ status' = <<"File not present, need to transfert">>
            /\ pc' = "put_scp"
            /\ obs' = [Visit(obs, "Transfer") EXCEPT !.decided = "transfer"]
       ELSE /\ status' = <<"File already present, skipping the scp">>
            /\ pc' = "exit"
            /\ obs' = [Visit(obs, "Skip") EXCEPT !.decided = "skip"]
    /\ UNCHANGED <<type, localFile, remoteFile, local_checksum, remote_checksum,
                   results, scpOpen, exc, emitted, run, prev, envChanges, dirty>>

\* line 527, SCP.__enter__: the session opens, or opening it raises
PutScpEnter ==
    /\ pc = "put_scp"
    /\ \E fails \in BOOLEAN :
         LET o == Note(obs, "scp_open", IF fails THEN "error" ELSE "ok")
         IN IF fails
            THEN Uncaught(o) /\ UNCHANGED scpOpen
            ELSE /\ scpOpen' = TRUE
                 /\ pc' = "put_copy"
                 /\ obs' = o
                 /\ UNCHANGED emitted
    /\ UNCHANGED <<type, localFile, remoteFile, local_checksum, remote_checksum,
                   status, results, exc, run, prev, envChanges, dirty>>

\* line 528, scp1.put(local_file, remote_path)
PutCopy ==
    /\ pc = "put_copy"
    /\ \E oc \in CopyOutcomes(localFile, remoteFile) :
         /\ remoteFile' = oc[2]
         /\ exc' = IF oc[1] THEN "scp_error" ELSE "none"
         /\ obs' = [Note(obs, "scp_put", IF oc[1] THEN "error" ELSE "ok")
                       EXCEPT !.copyDone = ~oc[1]]
    /\ pc' = "put_scp_exit"
    /\ UNCHANGED <<type, localFile, local_checksum, remote_checksum, status,
                   results, scpOpen, emitted, run, prev, envChanges, dirty>>

\* line 527, SCP.__exit__: leaving the with block, normally or by exception
PutScpExit ==
    /\ pc = "put_scp_exit"
    /\ scpOpen' = ScpAfterExit(exc)
    /\ exc' = "none"
    /\ IF exc # "none"
       THEN Uncaught(Note(obs, "scp_close", "ok"))
       ELSE /\ pc' = "put_verify"
            /\ obs' = Visit(Note(obs, "scp_close", "ok"), "Verifying")
            /\ UNCHANGED emitted
    /\ UNCHANGED <<type, localFile, remoteFile, local_checksum, remote_checksum,
                   status, results, run, prev, envChanges, dirty>>

\* line 532
PutVerify ==
    /\ pc = "put_verify"
    /\ \E rpcerr \in BOOLEAN :
         LET c == remote_md5(remoteFile, type, rpcerr)
             o == Cksum(obs, "remote_md5", FileRes(remoteFile, rpcerr))
         IN IF c = RAISE
            THEN Uncaught(o) /\ UNCHANGED remote_checksum
            ELSE /\ remote_checksum' = c
                 /\ pc' = "put_check"
                 /\ obs' = [o EXCEPT !.dstVerified = c]
                 /\ UNCHANGED emitted
    /\ UNCHANGED <<type, localFile, remoteFile, local_checksum, status,
                   results, scpOpen, exc, run, prev, envChanges, dirty>>

\* (variant: a mismatch is answered by one more transfer)
PutCheckRetry ==
    /\ pc = "put_check"
    /\ IF Mismatch(local_checksum, remote_checksum)
       THEN IF Cardinality(Calls(CopyOps)) < 2
            THEN /\ pc' = "put_scp"
                 /\ obs' = Visit(obs, "Transfer")
                 /\ UNCHANGED <<status, emitted, results>>
            ELSE /\ status' = FailStatus(local_checksum, remote_checksum)
                 /\ emitted' = "fail_json"
                 /\ pc' = "failed"
                 /\ obs' = Visit(Note(obs, "fail_json", "ok"), "Fail")
                 /\ UNCHANGED results
       ELSE /\ status' = <<"File pushed OK">>
            /\ results' = [results EXCEPT !.changed = TRUE]
            /\ pc' = "exit"
            /\ obs' = Visit(obs, "Success")
            /\ UNCHANGED emitted
    /\ UNCHANGED <<type, localFile, remoteFile, local_checksum, remote_checksum,
                   scpOpen, exc, run, prev, envChanges, dirty>>

\* lines 534-545
PutCheck ==
    /\ pc = "put_check"
    /\ IF Mismatch(local_checksum, remote_checksum)
       THEN /\ status' = FailStatus(local_checksum, remote_checksum)
            /\ emitted' = "fail_json"
            /\ pc' = "failed"
            /\ obs' = Visit(Note(obs, "fail_json", "ok"), "Fail")
            /\ UNCHANGED results
       ELSE /\ status' = <<"File pushed OK">>
            /\ results' = [results EXCEPT !.changed = TRUE]
            /\ pc' = "exit"
            /\ obs' = Visit(obs, "Success")
            /\ UNCHANGED emitted
    /\ UNCHANGED <<type, localFile, remoteFile, local_checksum, remote_checksum,
                   scpOpen, exc, run, prev, envChanges, dirty>>

\* ---------------------------------------------------------------- get

\* line 552
GetRemoteMd5 ==
    /\ pc = "get_remote"
    /\ \E rpcerr \in BOOLEAN :
         LET c == remote_md5(remoteFile, type, rpcerr)
             o == Cksum(obs, "remote_md5", FileRes(remoteFile, rpcerr))
         IN IF c = RAISE
            THEN Uncaught(o) /\ UNCHANGED remote_checksum
            ELSE /\ remote_checksum' = c
                 /\ pc' = "get_local"
                 /\ obs' = [o EXCEPT !.srcSeen = c]
                 /\ UNCHANGED emitted
    /\ UNCHANGED <<type, localFile, remoteFile, local_checksum, status,
                   results, scpOpen, exc, run, prev, envChanges, dirty>>

\* line 554
GetLocalMd5 ==
    /\ pc = "get_local"
    /\ \E ioerr \in BOOLEAN :
         LET c == local_md5(localFile, type, ioerr)
             o == Cksum(obs, "local_md5", FileRes(localFile, ioerr))
         IN IF c = RAISE
            THEN Uncaught(o) /\ UNCHANGED local_checksum
            ELSE /\ local_checksum' = c
                 /\ pc' = "get_decide"
                 /\ obs' = [o EXCEPT !.dstSeen = c]
                 /\ UNCHANGED emitted
    /\ UNCHANGED <<type, localFile, remoteFile, remote_checksum, status,
                   results, scpOpen, exc, run, prev, envChanges, dirty>>

\* lines 555 and 579-581
GetDecide ==
    /\ pc = "get_decide"
    /\ IF NeedTransfer(local_checksum, remote_checksum)
       THEN /\ pc' = "get_scp"
            /\ obs' = [Visit(obs, "Transfer") EXCEPT !.decided = "transfer"]
            /\ UNCHANGED status
       ELSE /\ status' = <<"File already present, skipping the scp">>
            /\ pc' = "exit"
            /\ obs' = [Visit(obs, "Skip") EXCEPT !.decided = "skip"]
    /\ UNCHANGED <<type, localFile, remoteFile, local_checksum, remote_checksum,
                   results, scpOpen, exc, emitted, run, prev, envChanges, dirty>>

\* line 557, SCP.__enter__
GetScpEnter ==
    /\ pc = "get_scp"
    /\ \E fails \in BOOLEAN :
         LET o == Note(obs, "scp_open", IF fails THEN "error" ELSE "ok")
         IN IF fails
            THEN Uncaught(o) /\ UNCHANGED scpOpen
            ELSE /\ scpOpen' = TRUE
                 /\ pc' = "get_copy"
                 /\ obs' = o
                 /\ UNCHANGED emitted
    /\ UNCHANGED <<type, localFile, remoteFile, local_checksum, remote_checksum,
                   status, results, exc, run, prev, envChanges, dirty>>

\* (variant: the get branch uploads)
GetCopyUpload ==
    /\ pc = "get_copy"
    /\ \E oc \in CopyOutcomes(localFile, remoteFile) :
         /\ remoteFile' = oc[2]
         /\ exc' = IF oc[1] THEN "scp_error" ELSE "none"
         /\ obs' = [Note(obs, "scp_put", IF oc[1] THEN "error" ELSE "ok")
                       EXCEPT !.copyDone = ~oc[1]]
    /\ pc' = "get_scp_exit"
    /\ UNCHANGED <<type, localFile, local_checksum, remote_checksum, status,
                   results, scpOpen, emitted, run, prev, envChanges, dirty>>

\* line 558, scp1.get(remote_file, local_file)
GetCopy ==
    /\ pc = "get_copy"
    /\ \E oc \in CopyOutcomes(remoteFile, localFile) :
         /\ localFile' = oc[2]
         /\ exc' = IF oc[1] THEN "scp_error" ELSE "none"
         /\ obs' = [Note(obs, "scp_get", IF oc[1] THEN "error" ELSE "ok")
                       EXCEPT !.copyDone = ~oc[1]]
    /\ pc' = "get_scp_exit"
    /\ UNCHANGED <<type, remoteFile, local_checksum, remote_checksum, status,
                   results, scpOpen, emitted, run, prev, envChanges, dirty>>

\* line 557, SCP.__exit__
GetScpExit ==
    /\ pc = "get_scp_exit"
    /\ scpOpen' = ScpAfterExit(exc)
    /\ exc' = "none"
    /\ IF exc # "none"
       THEN Uncaught(Note(obs, "scp_close", "ok"))
       ELSE /\ pc' = "get_verify"
            /\ obs' = Visit(Note(obs, "scp_close", "ok"), "Verifying")
            /\ UNCHANGED emitted
    /\ UNCHANGED <<type, localFile, remoteFile, local_checksum, remote_checksum,
                   status, results, run, prev, envChanges, dirty>>

\* line 562
GetVerify ==
    /\ pc = "get_verify"
    /\ \E ioerr \in BOOLEAN :
         LET c == local_md5(localFile, type, ioerr)
             o == Cksum(obs, "local_md5", FileRes(localFile, ioerr))
         IN IF c = RAISE
            THEN Uncaught(o) /\ UNCHANGED local_checksum
            ELSE /\ local_checksum' = c
                 /\ pc' = "get_check"
                 /\ obs' = [o EXCEPT !.dstVerified = c]
                 /\ UNCHANGED emitted
    /\ UNCHANGED <<type, localFile, remoteFile, remote_checksum, status,
                   results, scpOpen, exc, run, prev, envChanges, dirty>>

\* lines 565-577
GetCheck ==
    /\ pc = "get_check"
    /\ IF Mismatch(remote_checksum, local_checksum)
       THEN /\ status' = FailStatus(local_checksum, remote_checksum)
            /\ emitted' = "fail_json"
            /\ pc' = "failed"
            /\ obs' = Visit(Note(obs, "fail_json", "ok"), "Fail")
            /\ UNCHANGED results
       ELSE /\ status' = <<"File retrieved OK">>
            /\ results' = [results EXCEPT !.changed = TRUE]
            /\ pc' = "exit"
            /\ obs' = Visit(obs, "Success")
            /\ UNCHANGED emitted
    /\ UNCHANGED <<type, localFile, remoteFile, local_checksum, remote_checksum,
                   scpOpen, exc, run, prev, envChanges, dirty>>

\* --------------------------------------------------------------- common

\* lines 583-586
ExitJson ==
    /\ pc = "exit"
    /\ results' = [results EXCEPT !.msg = status]
    /\ emitted' = "exit_json"
    /\ pc' = "exited"
    /\ obs' = Note(obs, "exit_json", "ok")
    /\ UNCHANGED <<type, localFile, remoteFile, local_checksum, remote_checksum,
                   status, scpOpen, exc, run, prev, envChanges, dirty>>

\* the task runs again: a new process, nothing is kept but the two files
NewRun ==
    /\ pc \in Terminal
    /\ run < MaxRuns
    /\ run' = run + 1
    /\ prev' = Ended(Outcome, type, dirty, obs.atStart[1])
    /\ type' \in Types
    /\ pc' = "start"
    /\ local_checksum' = UNSET
    /\ remote_checksum' = UNSET
    /\ status' = <<>>
    /\ results' = InitResults
    /\ scpOpen' = FALSE
    /\ exc' = "none"
    /\ emitted' = "none"
    /\ dirty' = FALSE
    /\ obs' = [InitObs EXCEPT !.atStart = <<localFile, remoteFile>>]
    /\ UNCHANGED <<localFile, remoteFile, envChanges>>

\* somebody else writes or removes the local file
EnvLocal ==
    /\ envChanges < MaxEnvChanges
    /\ \E f \in FileStates \ {localFile} : localFile' = f
    /\ envChanges' = envChanges + 1
    /\ dirty' = TRUE
    /\ UNCHANGED <<type, remoteFile, pc, local_checksum, remote_checksum,
                   status, results, scpOpen, exc, emitted, run, prev, obs>>

\* somebody else writes or removes the remote file
EnvRemote ==
    /\ envChanges < MaxEnvChanges
    /\ \E f \in FileStates \ {remoteFile} : remoteFile' = f
    /\ envChanges' = envChanges + 1
    /\ dirty' = TRUE
    /\ UNCHANGED <<type, localFile, pc, local_checksum, remote_checksum,
                   status, results, scpOpen, exc, emitted, run, prev, obs>>

Step ==
    \/ Begin
    \/ PutLocalMd5 \/ PutRemoteMd5 \/ PutDecide \/ PutScpEnter \/ PutCopy
    \/ PutScpExit \/ PutVerify \/ PutCheck
    \/ GetRemoteMd5 \/ GetLocalMd5 \/ GetDecide \/ GetScpEnter \/ GetCopy
    \/ GetScpExit \/ GetVerify \/ GetCheck
    \/ ExitJson

Next == Step \/ NewRun \/ EnvLocal \/ EnvRemote

Spec == Init /\ [][Next]_vars

\* main is one thread of blocking calls: a statement that can run, runs
FairSpec == Spec /\ WF_vars(Step)

TypeOK ==
    /\ type \in Types
    /\ localFile \in FileStates /\ remoteFile \in FileStates
    /\ local_checksum \in Digests \cup {"no_file", UNSET}
    /\ remote_checksum \in Digests \cup {"no_file", UNSET}
    /\ scpOpen \in BOOLEAN
    /\ emitted \in {"none", "exit_json", "fail_json", "traceback"}
    /\ run \in 1..MaxRuns

\* ------------------------------------------------------- properties

BothObtained == obs.srcSeen # UNSET /\ obs.dstSeen # UNSET
DstDiffers == obs.dstSeen = "no_file" \/ obs.dstSeen # obs.srcSeen
Attempted == Calls({"scp_open"}) # {}
SrcOp == IF type = "put" THEN "local_md5" ELSE "remote_md5"
DstOp == IF type = "put" THEN "remote_md5" ELSE "local_md5"
CopyOp == IF type = "put" THEN "scp_put" ELSE "scp_get"
OkMsg == IF type = "put" THEN <<"File pushed OK">> ELSE <<"File retrieved OK">>
SkipMsg == <<"File already present, skipping the scp">>

\* C1: once both checksums were obtained (source first, then destination:
\* local then remote for put, remote then local for get), a session is
\* opened only if the destination checksum is "no_file" or differs from the
\* source checksum, and an invocation that ends has opened one whenever the
\* destination checksum was "no_file" or differed.
C1_TransferIffDiffers ==
    BothObtained =>
        /\ OpNames[1] = SrcOp /\ OpNames[2] = DstOp
        /\ Attempted => DstDiffers
        /\ (pc \in Terminal /\ DstDiffers) => Attempted

C1_Witness ==
    /\ pc \in Terminal /\ BothObtained /\ Attempted
    /\ type = "get" /\ obs.dstSeen \in Digests /\ obs.dstSeen # obs.srcSeen

\* C2: results['changed'] is true only when the copy returned, the
\* destination checksum was then computed again and equals the source
\* checksum read in Comparing; the calls were made in that order, and the
\* destination checksum read before the copy is not the one that matched.
C2_SuccessOnlyVerified ==
    results.changed =>
        /\ obs.copyDone
        /\ obs.dstVerified # UNSET /\ obs.dstVerified = obs.srcSeen
        /\ obs.dstSeen # obs.dstVerified
        /\ SubSeq(OpNames, 1, 6)
             = <<SrcOp, DstOp, "scp_open", CopyOp, "scp_close", DstOp>>
        /\ (IF type = "put" THEN remote_checksum ELSE local_checksum)
             = obs.dstVerified
        /\ emitted \in {"none", "exit_json"}

C2_Witness ==
    /\ emitted = "exit_json" /\ results.changed /\ type = "put"
    /\ obs.dstSeen \in Digests /\ dirty

\* checksum calls made after the with SCP statement was entered
Verifications == {i \in Calls(CksumOps) : \E j \in Calls({"scp_open"}) : j < i}

\* C3 (as claimed): whenever the destination checksum was "no_file" or
\* differed, the invocation ends with exactly one transfer attempt and
\* exactly one recomputation of the destination checksum; never more than one.
C3_OnceAndReverified ==
    /\ Cardinality(Calls({"scp_open"})) <= 1
    /\ Cardinality(Verifications) <= 1
    /\ (pc \in Terminal /\ BothObtained /\ DstDiffers) =>
          /\ Cardinality(Calls({"scp_open"})) = 1
          /\ Cardinality(Verifications) = 1

\* C3 (amended): whenever the destination checksum was "no_file" or differed,
\* the invocation ends with exactly one transfer attempt; the destination
\* checksum is recomputed exactly once when the copy returned and not at all
\* when opening the session or the copy raised; never more than one session,
\* one copy or one recomputation.
C3_OnceAndReverifiedIfCopied ==
    /\ Cardinality(Calls({"scp_open"})) <= 1
    /\ Cardinality(Calls(CopyOps)) <= 1
    /\ Cardinality(Verifications) <= 1
    /\ \A i \in Verifications :
          /\ OpNames[i] = DstOp
          /\ i > 1 /\ OpNames[i - 1] = "scp_close"
    /\ (pc \in Terminal /\ BothObtained /\ DstDiffers) =>
          /\ Cardinality(Calls({"scp_open"})) = 1
          /\ Cardinality(Verifications) = (IF obs.copyDone THEN 1 ELSE 0)
          /\ obs.copyDone => Calls(CopyOps) = {4}

C3_Witness ==
    /\ pc \in Terminal /\ BothObtained /\ DstDiffers
    /\ obs.copyDone /\ Cardinality(Verifications) = 1
    /\ Outcome = "Fail"

\* C4: when the two checksums read in Comparing are equal, no session is
\* opened, no copy is made, no checksum is computed again, the run does not
\* fail, and it ends with exit_json(changed=False, failed=False,
\* msg="File already present, skipping the scp").
C4_MatchSkips ==
    (BothObtained /\ obs.srcSeen = obs.dstSeen) =>
        /\ Calls({"scp_open", "scp_close"} \cup CopyOps) = {}
        /\ Calls(CksumOps) = {1, 2}
        /\ ~scpOpen
        /\ results.changed = FALSE /\ results.failed = FALSE
        /\ pc \in {"put_decide", "get_decide", "exit", "exited"}
        /\ emitted \in {"none", "exit_json"}
        /\ pc \in {"exit", "exited"} => Outcome = "Skip" /\ status = SkipMsg
        /\ pc = "exited" =>
              /\ emitted = "exit_json"
              /\ results = [msg |-> SkipMsg, changed |-> FALSE, failed |-> FALSE]

C4_Witness ==
    /\ pc = "exited" /\ type = "get" /\ BothObtained
    /\ obs.srcSeen = obs.dstSeen /\ results.msg = SkipMsg

\* C5: when the copy returned and the recomputed destination checksum
\* differs from the source checksum, the run calls fail_json with a message
\* that holds both checksums and stops: changed stays false, exit_json is
\* never called, and no copy or checksum call follows the recomputation.
C5_MismatchFails ==
    (obs.copyDone /\ obs.dstVerified # UNSET /\ obs.dstVerified # obs.srcSeen) =>
        /\ pc \in {"put_check", "get_check", "failed"}
        /\ results.changed = FALSE
        /\ emitted \in {"none", "fail_json"}
        /\ Calls(CksumOps \cup CopyOps \cup {"scp_open"}) = 1..4 \cup {6}
        /\ Calls({"exit_json"}) = {}
        /\ pc = "failed" =>
              /\ emitted = "fail_json"
              /\ Outcome = "Fail"
              /\ Len(status) = 3
              /\ {status[2], status[3]} = {obs.srcSeen, obs.dstVerified}
              /\ status = FailStatus(local_checksum, remote_checksum)
              /\ OpNames[Len(OpNames)] = "fail_json"

C5_Witness ==
    /\ pc = "failed" /\ type = "put" /\ obs.copyDone
    /\ obs.dstVerified \in Digests /\ obs.dstVerified # obs.srcSeen

\* C6: a session is open only between entering the with block and leaving
\* it; the call that follows scp_open is the copy; every ended invocation,
\* however it ended (also when the copy raised), has no session open; and no
\* checksum call is made while a session is open.
C6_SessionScoped ==
    /\ scpOpen => pc \in {"put_copy", "put_scp_exit", "get_copy", "get_scp_exit"}
    /\ pc \in Terminal => ~scpOpen
    /\ ~obs.cksumOpen
    /\ \A i \in Calls({"scp_open"}) :
          /\ i = Len(obs.ops) => (scpOpen \/ obs.ops[i][2] = "error")
          /\ i < Len(obs.ops) => OpNames[i + 1] \in CopyOps
    /\ \A i \in Calls(CopyOps) :
          /\ OpNames[i - 1] = "scp_open"
          /\ i < Len(obs.ops) => OpNames[i + 1] = "scp_close"
    /\ Cardinality(Calls({"scp_close"}))
          = Cardinality({i \in Calls({"scp_open"}) : obs.ops[i][2] = "ok"})
            - (IF scpOpen THEN 1 ELSE 0)

C6_Witness ==
    /\ pc = "raised" /\ ~scpOpen
    /\ \E i \in Calls(CopyOps) : obs.ops[i][2] = "error"
    /\ OpNames[Len(OpNames)] = "scp_close"

\* the first call found the source file missing / the second call found
\* the destination file missing
SrcAbsent == Len(obs.ops) >= 1 /\ obs.ops[1] = <<SrcOp, "absent">>
DstAbsent == Len(obs.ops) >= 2 /\ obs.ops[2] = <<DstOp, "absent">>

\* C7: the source checksum is never "no_file"; when the source file is
\* missing (local file for put, remote file for get) the exception leaves
\* main at once: nothing else is called, no session is opened, no copy is
\* made, no checksum is stored and no result is emitted by exit_json.
C7_SourceMissingFatal ==
    /\ obs.srcSeen # "no_file"
    /\ SrcAbsent =>
          /\ pc = "raised" /\ emitted = "traceback" /\ Outcome = "Fatal"
          /\ Len(obs.ops) = 1
          /\ local_checksum = UNSET /\ remote_checksum = UNSET
          /\ obs.decided = "none"
          /\ ~scpOpen /\ results.changed = FALSE

C7_Witness ==
    /\ SrcAbsent /\ type = "put" /\ pc = "raised" /\ remoteFile \in Digests

C8_WitnessPut ==
    /\ DstAbsent /\ type = "put" /\ pc = "exited"
    /\ results.changed /\ results.msg = <<"File pushed OK">>

\* C9: a remote checksum call that fails for another cause than a missing
\* file (first or second call), a session that cannot be opened and a copy
\* that raises end the run: the failed call is the last collaborator call
\* (only the closing of the session follows a failed copy), the exception
\* leaves main, changed stays false and no result is emitted.
C9_RemoteFailureFatal ==
    \A i \in 1..Len(obs.ops) :
        LET n == Len(obs.ops) IN
        /\ obs.ops[i] \in {<<"remote_md5", "error">>, <<"scp_open", "error">>} =>
              /\ i = n
              /\ pc = "raised" /\ emitted = "traceback" /\ Outcome = "Fatal"
              /\ results.changed = FALSE
        /\ obs.ops[i] \in {<<"scp_put", "error">>, <<"scp_get", "error">>} =>
              /\ results.changed = FALSE
              /\ obs.dstVerified = UNSET
              /\ \/ i = n /\ pc \in {"put_scp_exit", "get_scp_exit"}
                    /\ exc = "scp_error" /\ emitted = "none"
                 \/ i = n - 1 /\ OpNames[n] = "scp_close"
                    /\ pc = "raised" /\ emitted = "traceback"
                    /\ Outcome = "Fatal"

C9_Witness ==
    /\ type = "put" /\ Len(obs.ops) = 6 /\ obs.ops[6] = <<"remote_md5", "error">>
    /\ pc = "raised" /\ obs.copyDone

C9_WitnessCopy ==
    /\ pc = "raised" /\ \E i \in Calls(CopyOps) : obs.ops[i][2] = "error"

\* this invocation follows one that ended in Success, and nobody else has
\* touched either file since that one began
RerunAfterSuccess ==
    run > 1 /\ prev.outcome = "Success" /\ ~prev.dirty /\ ~dirty

\* C10 (as claimed): a run that follows a successful sync, with no change to
\* either file during or between the two runs, ends in Skip with
\* changed=false, whatever its direction.
C10_RerunSkips ==
    (RerunAfterSuccess /\ pc \in Terminal) =>
        /\ Outcome = "Skip"
        /\ emitted = "exit_json" /\ results.changed = FALSE

\* C10 (amended): a run that follows a successful sync, with no change to
\* either file during or between the two runs, finds the two files equal,
\* opens no session and copies nothing, never reports changed=true, and
\* ends in Skip unless one of its two checksum calls fails for another
\* cause than a missing file, in which case it ends with that exception.
C10_RerunSkipsOrAborts ==
    RerunAfterSuccess =>
        /\ localFile = remoteFile /\ localFile \in Digests
        /\ Calls({"scp_open", "scp_close"} \cup CopyOps) = {}
        /\ results.changed = FALSE
        /\ BothObtained => obs.srcSeen = obs.dstSeen
        /\ obs.decided # "transfer"
        /\ pc \in Terminal =>
              \/ /\ Outcome = "Skip" /\ pc = "exited" /\ emitted = "exit_json"
                 /\ results = [msg |-> SkipMsg, changed |-> FALSE,
                               failed |-> FALSE]
              \/ /\ Outcome = "Fatal" /\ pc = "raised"
                 /\ OpNames[Len(OpNames)] \in CksumOps
                 /\ obs.ops[Len(obs.ops)][2] = "error"

C10_Witness ==
    /\ RerunAfterSuccess /\ prev.type = "put" /\ type = "put"
    /\ pc = "exited" /\ Outcome = "Skip"

\* this invocation is a get that follows a put that ended in Success, and
\* nobody else has touched either file since that put began
GetAfterPut ==
    /\ run > 1 /\ prev.type = "put" /\ prev.outcome = "Success"
    /\ type = "get" /\ ~prev.dirty /\ ~dirty

\* C11: during and after a get that follows a successful put, with no
\* external change since the put began, the local file and the remote file
\* both have the digest the local file had when the put began; the get
\* copies nothing.
C11_RoundTrip ==
    GetAfterPut =>
        /\ prev.local \in Digests
        /\ localFile = prev.local
        /\ remoteFile = prev.local
        /\ obs.atStart = <<prev.local, prev.local>>
        /\ Calls(CopyOps) = {}
        /\ obs.srcSeen \in {UNSET, prev.local}
        /\ obs.dstSeen \in {UNSET, prev.local}

C11_Witness ==
    /\ GetAfterPut /\ pc = "exited" /\ Outcome = "Skip"
    /\ obs.ops[2] = <<"local_md5", "ok">>
    /\ local_checksum = prev.local /\ remote_checksum = prev.local

\* the copy returned and the destination checksum computed after it equals
\* the source checksum
VerifiedTransfer ==
    /\ obs.copyDone
    /\ obs.dstVerified # UNSET /\ obs.dstVerified = obs.srcSeen

\* C12: in the record passed to exit_json, failed is false, changed is true
\* exactly when a copy was made and verified in this invocation, and msg is
\* "File already present, skipping the scp" exactly when changed is false,
\* "File pushed OK" only for put with changed true, "File retrieved OK"
\* only for get with changed true.
C12_SuccessRecord ==
    emitted = "exit_json" =>
        /\ results.failed = FALSE
        /\ results.changed <=> VerifiedTransfer
        /\ results.changed <=> (Calls(CopyOps) # {})
        /\ results.msg \in {SkipMsg, <<"File pushed OK">>, <<"File retrieved OK">>}
        /\ (results.msg = SkipMsg) <=> (results.changed = FALSE)
        /\ results.msg = <<"File pushed OK">> => (type = "put" /\ results.changed)
        /\ results.msg = <<"File retrieved OK">> => (type = "get" /\ results.changed)
        /\ results.msg = status

C12_Witness ==
    /\ emitted = "exit_json" /\ type = "get" /\ results.changed
    /\ results.msg = <<"File retrieved OK">> /\ VerifiedTransfer

\* one of the fatal conditions has occurred in this invocation: the source
\* file is missing, a remote checksum call or the transport failed, or the
\* copy returned and the recomputed destination checksum differs
SourceMissing == SrcAbsent
RemoteOperationError ==
    \E i \in 1..Len(obs.ops) :
        obs.ops[i] \in {<<"remote_md5", "error">>, <<"scp_open", "error">>,
                        <<"scp_put", "error">>, <<"scp_get", "error">>}
ChecksumMismatch ==
    obs.copyDone /\ obs.dstVerified # UNSET /\ obs.dstVerified # obs.srcSeen

\* C13: an invocation in which a fatal condition occurred ends by calling
\* fail_json with a message, and calls no collaborator after the condition
\* (the session that a failed copy leaves open is still closed).
C13_FatalEmitsFailure ==
    (SourceMissing \/ RemoteOperationError \/ ChecksumMismatch) =>
        /\ Calls({"exit_json"}) = {}
        /\ pc \in Terminal =>
              /\ pc = "failed" /\ emitted = "fail_json"
              /\ status # <<>>
              /\ OpNames[Len(OpNames)] = "fail_json"

\* C14: the first checksum call is the source side (local_md5 for put,
\* remote_md5 for get) and the second the destination side; the branch of
\* line 523/555 is taken only after both calls returned a checksum; when
\* the source file is missing the destination side is never called.
C14_SourceFirst ==
    /\ Len(obs.ops) >= 1 =>
          OpNames[1] = (IF type = "put" THEN "local_md5" ELSE "remote_md5")
    /\ Len(obs.ops) >= 2 =>
          /\ OpNames[2] = (IF type = "put" THEN "remote_md5" ELSE "local_md5")
          /\ obs.ops[1][2] = "ok"
    /\ obs.decided # "none" =>
          /\ BothObtained
          /\ Len(obs.ops) >= 2 /\ obs.ops[2][2] \in {"ok", "absent"}
    /\ Calls({"scp_open"}) # {} => obs.decided = "transfer"
    /\ SrcAbsent => Calls({DstOp}) = {}

C14_Witness ==
    /\ SrcAbsent /\ type = "get" /\ pc = "raised" /\ localFile \in Digests

\* the walks of the sync: Comparing, then Skip or Transfer; after Transfer,
\* Verifying; after Verifying, Success or Fail; Fatal from any of the three
Paths ==
    {<<"Comparing", "Skip">>,
     <<"Comparing", "Transfer", "Verifying", "Success">>,
     <<"Comparing", "Transfer", "Verifying", "Fail">>,
     <<"Comparing", "Fatal">>,
     <<"Comparing", "Transfer", "Fatal">>,
     <<"Comparing", "Transfer", "Verifying", "Fatal">>}
IsPrefix(p, q) == Len(p) <= Len(q) /\ SubSeq(q, 1, Len(p)) = p
EndStates == {"Skip", "Success", "Fail", "Fatal"}

PathSafe ==
    /\ \E q \in Paths : IsPrefix(obs.trace, q)
    /\ \A i, j \in 1..Len(obs.trace) : i # j => obs.trace[i] # obs.trace[j]
    /\ Cardinality({i \in 1..Len(obs.trace) : obs.trace[i] \in EndStates}) <= 1
    /\ pc \in Terminal => obs.trace \in Paths
    /\ obs.trace \in Paths => pc \in Terminal \cup {"exit"}
    /\ pc = "exited" => Outcome \in {"Skip", "Success"} /\ emitted = "exit_json"
    /\ pc = "failed" => Outcome = "Fail" /\ emitted = "fail_json"
    /\ pc = "raised" => Outcome = "Fatal" /\ emitted = "traceback"

\* C15: the states an invocation goes through are always the beginning of
\* one of the walks of Paths, no state is entered twice, an ended invocation
\* has completed exactly one walk, and (every call returning or raising)
\* every invocation ends.
C15_TerminatesOnOnePath ==
    /\ []PathSafe
    /\ \A r \in 1..MaxRuns : (run = r) ~> (run = r /\ pc \in Terminal)

C15_Witness ==
    /\ run = MaxRuns /\ pc = "failed"
    /\ obs.trace = <<"Comparing", "Transfer", "Verifying", "Fail">>

\* the checksum call made after the copy found the destination file missing
VerifiedAbsent == Len(obs.ops) >= 6 /\ obs.ops[6] = <<DstOp, "absent">>

FrameState ==
    /\ type = "put" => Calls({"scp_get"}) = {}
    /\ type = "get" => Calls({"scp_put"}) = {}
    /\ (Calls(CopyOps) = {} /\ ~dirty) => <<localFile, remoteFile>> = obs.atStart
    /\ (type = "put" /\ ~dirty) => localFile = obs.atStart[1]
    /\ (type = "get" /\ ~dirty) => remoteFile = obs.atStart[2]

\* what holds of every step that is not a write by somebody else: put
\* leaves the local file alone, get leaves the remote file alone, and a
\* file changes only in the copy statement, inside the session
FrameStep ==
    (envChanges' = envChanges) =>
        /\ type = "put" => localFile' = localFile
        /\ type = "get" => remoteFile' = remoteFile
        /\ (localFile' # localFile \/ remoteFile' # remoteFile) =>
              /\ pc \in {"put_copy", "get_copy"} /\ scpOpen
              /\ Outcome = "Transfer"

\* C17: an invocation writes only the destination of its direction and only
\* in the copy statement of Transfer: put never changes the local file and
\* never downloads, get never changes the remote file and never uploads,
\* and an invocation that skips or aborts before the copy leaves both files
\* as they were.
C17_WritesOnlyDestination == []FrameState /\ [][FrameStep]_vars

C17_Witness ==
    /\ type = "get" /\ ~dirty /\ pc \in Terminal /\ Calls({"scp_get"}) # {}
    /\ localFile # obs.atStart[1] /\ remoteFile = obs.atStart[2]

\* main's variable that holds the source checksum
SrcVar == IF type = "put" THEN local_checksum ELSE remote_checksum

\* C18: the source side is called once, as the first call; the variable
\* that holds the source checksum keeps the value read then; whatever
\* others do to the files meanwhile, Success means that the destination
\* checksum read after the copy equals that value, and Skip means that the
\* two checksums read before the branch were equal digests.
C18_StoredSourceDecides ==
    /\ Calls({SrcOp}) \subseteq {1}
    /\ pc \notin {"start", "put_local", "get_remote"} => Calls({SrcOp}) = {1}
    /\ SrcVar = obs.srcSeen
    /\ Outcome = "Success" =>
          /\ obs.srcSeen \in Digests
          /\ obs.dstVerified = obs.srcSeen
          /\ Calls({DstOp}) = {2, 6}
    /\ Outcome = "Skip" =>
          /\ obs.srcSeen \in Digests /\ obs.dstSeen \in Digests
          /\ obs.srcSeen = obs.dstSeen
          /\ obs.dstVerified = UNSET

C18_Witness ==
    /\ pc = "exited" /\ Outcome = "Success" /\ dirty
    /\ type = "put" /\ localFile # obs.srcSeen /\ remoteFile = obs.srcSeen

====
